---- MODULE Spec2Model ----
(***************************************************************************)
(* Model of tools/abel/model/model_helper.py: the link score, the two      *)
(* update-mask calculators, DetermineEntityOperations and                  *)
(* ReconcileOperations.                                                    *)
(*                                                                         *)
(* Python lists are sequences and set(xs) is ToSet(xs).  Each call runs    *)
(* one loop iteration per step.  A raised exception is the pc value        *)
(* "raised" with the exception in `error`; a normal return is the pc value *)
(* "returned" with the returned list in `result`.                          *)
(***************************************************************************)
EXTENDS Integers, Sequences, FiniteSets

VARIABLES
    pc,                   \* "loop", "returned" or "raised"
    error,                \* the exception raised, NoError when none
    visited,              \* number of loop iterations completed
    result,               \* the list the call returned, <<>> before it returns
    current_model,        \* DetermineEntityOperations: argument
    updated_model,        \* DetermineEntityOperations: argument
    operations,           \* DetermineEntityOperations: list being built
    import_entity,        \* DetermineEntityOperations: loop variable
    export_entity,        \* DetermineEntityOperations: entity fetched last
    update_mask,          \* DetermineEntityOperations: mask computed last
    model_operations,     \* ReconcileOperations: argument
    generated_operations, \* ReconcileOperations: argument
    return_operations     \* ReconcileOperations: list being built

vars == <<pc, error, visited, result, current_model, updated_model,
          operations, import_entity, export_entity, update_mask,
          model_operations, generated_operations, return_operations>>

(***************************************************************************)
(* Bounds of the explored inputs.                                          *)
(***************************************************************************)
\* most distinct links / translations of the current entity of a pair
MaxLinks == 10
\* most distinct connections of the current entity of a pair
MaxConnections == 1
\* most connections / links / translations only the updated entity has
MaxNew == 1
\* number of distinct bc_guid values of the compared models
NumGuids == 2
\* longest manual operation list
MaxManual == 2
\* longest generated operation list
MaxGenerated == 2

(***************************************************************************)
(* Values.                                                                 *)
(***************************************************************************)
VirtualEntity == "VirtualEntity"
ReportingEntity == "ReportingEntity"
Variants == {VirtualEntity, ReportingEntity}

ADD == "ADD"
UPDATE == "UPDATE"
DELETE == "DELETE"
EXPORT == "EXPORT"
EntityOperationType == {ADD, UPDATE, DELETE, EXPORT}

CODE == "CODE"
TYPE == "TYPE"
CONNECTIONS == "CONNECTIONS"
TRANSLATION == "TRANSLATION"
LINKS == "LINKS"
EntityUpdateMaskAttribute == {CODE, TYPE, CONNECTIONS, TRANSLATION, LINKS}

Codes == {"VAV-1", "VAV-3"}
TypeNames == {"VAV", "FAN"}
Guids == 1..NumGuids
\* the guids the manual and generated operations are about
OperationGuids == {1, 2}
\* an EntityOperation built without update_mask carries none
NoMask == <<>>
NoError == [type |-> "None", guid |-> 0]

\* set(xs): the distinct elements of a list
ToSet(xs) == {xs[i] : i \in 1..Len(xs)}

\* bool(xs) of a list: non-empty
Truthy(xs) == Len(xs) > 0

\* An entity.  A VirtualEntity carries links, a ReportingEntity translations.
Entity(guid, variant, code, type_name, connections, fields) ==
    [bc_guid |-> guid, variant |-> variant, code |-> code,
     type_name |-> type_name, connections |-> connections,
     links |-> IF variant = VirtualEntity THEN fields ELSE <<>>,
     translations |-> IF variant = ReportingEntity THEN fields ELSE <<>>]

\* value of a local that is not assigned yet
NoEntity == Entity(0, "None", "", "", <<>>, <<>>)

\* EntityOperation(entity, operation, update_mask)
EntityOperation(entity, operation, mask) ==
    [entity |-> entity, operation |-> operation, update_mask |-> mask]

(***************************************************************************)
(* _GetLinkScore: len(updated & current) / len(current) over the sets.     *)
(* The quotient is kept exact as numerator and denominator: for lists of   *)
(* fewer than 2^50 elements the rounded float quotient compares with the   *)
(* float literal 0.9 exactly as num/den compares with 9/10.                *)
(***************************************************************************)
_GetLinkScore(current_links, updated_links) ==
    LET current_link_set == ToSet(current_links)
        updated_link_set == ToSet(updated_links)
    IN  [num |-> Cardinality(updated_link_set \cap current_link_set),
         den |-> Cardinality(current_link_set)]

\* the division of _GetLinkScore raises ZeroDivisionError on a zero divisor
LinkScoreRaises(current_links, updated_links) ==
    _GetLinkScore(current_links, updated_links).den = 0

\* bug variant: `<= 0.9`
BelowThresholdInclusive(score) == 10 * score.num <= 9 * score.den

\* score < 0.9
BelowThreshold(score) == 10 * score.num < 9 * score.den

\* bug variant: connections compared as sets, removals flagged too
SharedMaskSymmetric(current, updated) ==
    (IF updated.code # current.code THEN <<CODE>> ELSE <<>>)
    \o (IF updated.type_name # current.type_name THEN <<TYPE>> ELSE <<>>)
    \o (IF ToSet(updated.connections) # ToSet(current.connections)
        THEN <<CONNECTIONS>> ELSE <<>>)

\* the checks both calculators start with: CODE, TYPE, CONNECTIONS
SharedMask(current, updated) ==
    (IF updated.code # current.code THEN <<CODE>> ELSE <<>>)
    \o (IF updated.type_name # current.type_name THEN <<TYPE>> ELSE <<>>)
    \o (IF ToSet(updated.connections) \ ToSet(current.connections) # {}
        THEN <<CONNECTIONS>> ELSE <<>>)

\* bug variant: translations compared as sets, additions flagged too
ReportingMaskSymmetric(current, updated) ==
    SharedMask(current, updated)
    \o (IF ToSet(updated.translations) # ToSet(current.translations)
        THEN <<TRANSLATION>> ELSE <<>>)

\* DetermineReportingEntityUpdateMask (its print calls change no state)
DetermineReportingEntityUpdateMask(current, updated) ==
    SharedMask(current, updated)
    \o (IF (ToSet(updated.translations) \cap ToSet(current.translations))
            # ToSet(current.translations)
        THEN <<TRANSLATION>> ELSE <<>>)

\* `current_entity.links and updated_entity.links`: the score is computed
\* only when both lists are non-empty (`and` stops at the first falsy operand)
LinksGuard(current, updated) ==
    Truthy(current.links) /\ Truthy(updated.links)

\* whether DetermineVirtualEntityUpdateMask ends in ZeroDivisionError
VirtualMaskRaises(current, updated) ==
    LinksGuard(current, updated)
    /\ LinkScoreRaises(current.links, updated.links)

\* DetermineVirtualEntityUpdateMask, when it returns
DetermineVirtualEntityUpdateMask(current, updated) ==
    SharedMask(current, updated)
    \o (IF LinksGuard(current, updated)
           /\ BelowThreshold(_GetLinkScore(current.links, updated.links))
        THEN <<LINKS>> ELSE <<>>)

(***************************************************************************)
(* Inputs of DetermineEntityOperations.  A model holds at most one entity  *)
(* per bc_guid.  current_model is read only through its guid set and       *)
(* GetEntity, so its entities are listed in guid order.                    *)
(*                                                                         *)
(* Two families of inputs: models of up to NumGuids entities that differ   *)
(* in variant and connections, and models of one entity each, of the same  *)
(* guid and variant, that differ in every attribute.  Descriptors          *)
(* (connections, links, translations) are compared by value only, so they  *)
(* are numbered: the current list holds 1..n, possibly with the first      *)
(* repeated, the updated list keeps the first k of them and adds m others. *)
(***************************************************************************)
DiffEntities(guid) ==
    {Entity(guid, variant, "VAV-1", "VAV", connections, <<1>>) :
        variant \in Variants, connections \in {<<>>, <<1>>}}

GuidLists ==
    UNION {{gs \in [1..n -> Guids] :
                \A i, j \in 1..n : i # j => gs[i] # gs[j]} : n \in 0..NumGuids}

SortedGuidLists ==
    {gs \in GuidLists : \A i, j \in 1..Len(gs) : i < j => gs[i] < gs[j]}

ModelsOver(gs) ==
    {m \in [1..Len(gs) -> UNION {DiffEntities(g) : g \in Guids}] :
        \A i \in 1..Len(gs) : m[i].bc_guid = gs[i]}

Numbered(n) == [i \in 1..n |-> i]
Fresh(n, m) == [i \in 1..m |-> n + i]
Repeats(n) == IF n = 0 THEN {<<>>} ELSE {<<>>, <<1>>}

ListPairs(max) ==
    UNION {{<<Numbered(n) \o d, Numbered(k) \o Fresh(n, m)>> :
                k \in 0..n, m \in 0..MaxNew, d \in Repeats(n)} : n \in 0..max}

EntityPairs ==
    {<<Entity(1, variant, "VAV-1", "VAV", conn[1], fields[1]),
       Entity(1, variant, code, type_name, conn[2], fields[2])>> :
        variant \in Variants, code \in Codes, type_name \in TypeNames,
        conn \in ListPairs(MaxConnections), fields \in ListPairs(MaxLinks)}

DiffInputs ==
    ((UNION {ModelsOver(gs) : gs \in SortedGuidLists})
        \X (UNION {ModelsOver(gs) : gs \in GuidLists}))
    \cup {<<(<<pair[1]>>), (<<pair[2]>>)>> : pair \in EntityPairs}

(***************************************************************************)
(* DetermineEntityOperations.                                              *)
(***************************************************************************)
\* set(entity.bc_guid for entity in model.entities)
GuidsOf(model) == {model[i].bc_guid : i \in 1..Len(model)}

\* Model.GetEntity(guid), for a guid of the model
GetEntity(model, guid) == CHOOSE e \in ToSet(model) : e.bc_guid = guid

\* bug variant: the new entity is recorded as an update
AddOperationAsUpdate(entity) == EntityOperation(entity, UPDATE, NoMask)

\* EntityOperation(import_entity, operation=ADD)
AddOperation(entity) == EntityOperation(entity, ADD, NoMask)

\* bug variant: the UPDATE is appended whatever the mask
AppendUpdateAlways(ops, entity, mask) ==
    Append(ops, EntityOperation(entity, UPDATE, mask))

\* `if update_mask: operations.append(EntityOperation(..., UPDATE, update_mask))`
AppendUpdate(ops, entity, mask) ==
    IF Truthy(mask)
    THEN Append(ops, EntityOperation(entity, UPDATE, mask))
    ELSE ops

\* isinstance(import_entity, VirtualEntity) and isinstance(export_entity, VirtualEntity)
BothVirtual(imported, exported) ==
    imported.variant = VirtualEntity /\ exported.variant = VirtualEntity

\* bug variant: only the updated entity's variant is looked at
BothReportingImportOnly(imported, exported) ==
    imported.variant = ReportingEntity

\* isinstance(import_entity, ReportingEntity) and isinstance(export_entity, ReportingEntity)
BothReporting(imported, exported) ==
    imported.variant = ReportingEntity /\ exported.variant = ReportingEntity

DiffInit ==
    /\ pc = "loop"
    /\ error = NoError
    /\ visited = 0
    /\ result = <<>>
    /\ \E input \in DiffInputs :
            /\ current_model = input[1]
            /\ updated_model = input[2]
    /\ operations = <<>>
    /\ import_entity = NoEntity
    /\ export_entity = NoEntity
    /\ update_mask = <<>>
    /\ model_operations = <<>>
    /\ generated_operations = <<>>
    /\ return_operations = <<>>

\* the guid is not in current_model: append ADD and continue
DiffAdd ==
    /\ pc = "loop"
    /\ visited < Len(updated_model)
    /\ import_entity' = updated_model[visited + 1]
    /\ import_entity'.bc_guid \notin GuidsOf(current_model)
    /\ operations' = Append(operations, AddOperation(import_entity'))
    /\ visited' = visited + 1
    /\ UNCHANGED <<pc, error, result, current_model, updated_model,
                   export_entity, update_mask, model_operations,
                   generated_operations, return_operations>>

\* both entities are virtual: virtual mask, UPDATE when it is non-empty
DiffVirtual ==
    /\ pc = "loop"
    /\ visited < Len(updated_model)
    /\ import_entity' = updated_model[visited + 1]
    /\ import_entity'.bc_guid \in GuidsOf(current_model)
    /\ export_entity' = GetEntity(current_model, import_entity'.bc_guid)
    /\ BothVirtual(import_entity', export_entity')
    /\ IF VirtualMaskRaises(export_entity', import_entity')
       THEN /\ pc' = "raised"
            /\ error' = [type |-> "ZeroDivisionError", guid |-> 0]
            /\ UNCHANGED <<update_mask, operations, visited>>
       ELSE /\ update_mask' =
                DetermineVirtualEntityUpdateMask(export_entity', import_entity')
            /\ operations' = AppendUpdate(operations, import_entity', update_mask')
            /\ visited' = visited + 1
            /\ UNCHANGED <<pc, error>>
    /\ UNCHANGED <<result, current_model, updated_model, model_operations,
                   generated_operations, return_operations>>

\* both entities are reporting: reporting mask, UPDATE when it is non-empty
DiffReporting ==
    /\ pc = "loop"
    /\ visited < Len(updated_model)
    /\ import_entity' = updated_model[visited + 1]
    /\ import_entity'.bc_guid \in GuidsOf(current_model)
    /\ export_entity' = GetEntity(current_model, import_entity'.bc_guid)
    /\ ~BothVirtual(import_entity', export_entity')
    /\ BothReporting(import_entity', export_entity')
    /\ update_mask' =
            DetermineReportingEntityUpdateMask(export_entity', import_entity')
    /\ operations' = AppendUpdate(operations, import_entity', update_mask')
    /\ visited' = visited + 1
    /\ UNCHANGED <<pc, error, result, current_model, updated_model,
                   model_operations, generated_operations, return_operations>>

\* neither branch applies: raise TypeError naming the guid; nothing is returned
DiffRaise ==
    /\ pc = "loop"
    /\ visited < Len(updated_model)
    /\ import_entity' = updated_model[visited + 1]
    /\ import_entity'.bc_guid \in GuidsOf(current_model)
    /\ export_entity' = GetEntity(current_model, import_entity'.bc_guid)
    /\ ~BothVirtual(import_entity', export_entity')
    /\ ~BothReporting(import_entity', export_entity')
    /\ error' = [type |-> "TypeError", guid |-> import_entity'.bc_guid]
    /\ pc' = "raised"
    /\ UNCHANGED <<visited, result, current_model, updated_model, operations,
                   update_mask, model_operations, generated_operations,
                   return_operations>>

\* the loop is over: return operations
DiffReturn ==
    /\ pc = "loop"
    /\ visited = Len(updated_model)
    /\ result' = operations
    /\ pc' = "returned"
    /\ UNCHANGED <<error, visited, current_model, updated_model, operations,
                   import_entity, export_entity, update_mask,
                   model_operations, generated_operations, return_operations>>

DiffNext == DiffAdd \/ DiffVirtual \/ DiffReporting \/ DiffRaise \/ DiffReturn

DiffSpec == DiffInit /\ [][DiffNext]_vars

(***************************************************************************)
(* ReconcileOperations.  Both arguments are arbitrary lists of operations: *)
(* the generated list may hold any tag and several operations for one      *)
(* guid.  The manual source and the differ wrap separate entity objects:   *)
(* the entity's code tells which list an operation came from.              *)
(***************************************************************************)
ManualEntity(guid) == Entity(guid, ReportingEntity, "VAV-1", "VAV", <<>>, <<>>)
GeneratedEntity(guid) == Entity(guid, ReportingEntity, "VAV-3", "VAV", <<>>, <<>>)

\* the operations about an entity: UPDATE carries a mask, the others none
OperationsOn(entity) ==
    {EntityOperation(entity, op, NoMask) : op \in {ADD, DELETE, EXPORT}}
    \cup {EntityOperation(entity, UPDATE, <<CODE>>)}

ManualOperations == UNION {OperationsOn(ManualEntity(g)) : g \in OperationGuids}
GeneratedOperations == UNION {OperationsOn(GeneratedEntity(g)) : g \in OperationGuids}

ListsOf(ops, max) == UNION {[1..n -> ops] : n \in 0..max}

\* bug variant: every key is given the list's last operation
GeneratedOperationMapLastOfList(generated) ==
    [g \in {generated[i].entity.bc_guid : i \in 1..Len(generated)} |->
        generated[Len(generated)]]

\* {operation.entity.bc_guid: operation for operation in generated_operations}:
\* a later operation replaces an earlier one of the same guid
GeneratedOperationMap(generated) ==
    [g \in {generated[i].entity.bc_guid : i \in 1..Len(generated)} |->
        LET last == CHOOSE i \in 1..Len(generated) :
                        /\ generated[i].entity.bc_guid = g
                        /\ \A j \in (i + 1)..Len(generated) :
                                generated[j].entity.bc_guid # g
        IN  generated[last]]

\* `not generated_operation`: .get() found no operation for the guid
NoGenerated(map, guid) == guid \notin DOMAIN map

\* bug variant: the manual tag is compared with EXPORT
ManualIsExport(model_operation) == model_operation.operation = EXPORT

\* bug variant: a manual ADD is kept as a manual DELETE is
ManualIsDeleteOrAdd(model_operation) ==
    model_operation.operation \in {DELETE, ADD}

\* model_operation.operation == DELETE
ManualIsDelete(model_operation) == model_operation.operation = DELETE

\* model_operation.operation == EXPORT and generated_operation.operation != EXPORT
ExportOverridden(model_operation, generated_operation) ==
    /\ model_operation.operation = EXPORT
    /\ generated_operation.operation # EXPORT

ReconcileInit ==
    /\ pc = "loop"
    /\ error = NoError
    /\ visited = 0
    /\ result = <<>>
    /\ model_operations \in ListsOf(ManualOperations, MaxManual)
    /\ generated_operations \in ListsOf(GeneratedOperations, MaxGenerated)
    /\ return_operations = <<>>
    /\ current_model = <<>>
    /\ updated_model = <<>>
    /\ operations = <<>>
    /\ import_entity = NoEntity
    /\ export_entity = NoEntity
    /\ update_mask = <<>>

ReconcileUnchanged ==
    UNCHANGED <<pc, error, result, current_model, updated_model, operations,
                import_entity, export_entity, update_mask,
                model_operations, generated_operations>>

\* `if not generated_operation`: keep the manual operation
ReconcileNoGenerated ==
    /\ pc = "loop"
    /\ visited < Len(model_operations)
    /\ LET model_operation == model_operations[visited + 1]
           map == GeneratedOperationMap(generated_operations)
       IN  /\ NoGenerated(map, model_operation.entity.bc_guid)
           /\ return_operations' = Append(return_operations, model_operation)
    /\ visited' = visited + 1
    /\ ReconcileUnchanged

\* `elif manual is DELETE`: keep the manual operation
ReconcileDelete ==
    /\ pc = "loop"
    /\ visited < Len(model_operations)
    /\ LET model_operation == model_operations[visited + 1]
           map == GeneratedOperationMap(generated_operations)
       IN  /\ ~NoGenerated(map, model_operation.entity.bc_guid)
           /\ ManualIsDelete(model_operation)
           /\ return_operations' = Append(return_operations, model_operation)
    /\ visited' = visited + 1
    /\ ReconcileUnchanged

\* `elif manual is EXPORT and generated is not EXPORT`: use the generated one
ReconcileExport ==
    /\ pc = "loop"
    /\ visited < Len(model_operations)
    /\ LET model_operation == model_operations[visited + 1]
           map == GeneratedOperationMap(generated_operations)
       IN  /\ ~NoGenerated(map, model_operation.entity.bc_guid)
           /\ ~ManualIsDelete(model_operation)
           /\ ExportOverridden(model_operation, map[model_operation.entity.bc_guid])
           /\ return_operations' =
                Append(return_operations, map[model_operation.entity.bc_guid])
    /\ visited' = visited + 1
    /\ ReconcileUnchanged

\* `else`: use the generated operation
ReconcileElse ==
    /\ pc = "loop"
    /\ visited < Len(model_operations)
    /\ LET model_operation == model_operations[visited + 1]
           map == GeneratedOperationMap(generated_operations)
       IN  /\ ~NoGenerated(map, model_operation.entity.bc_guid)
           /\ ~ManualIsDelete(model_operation)
           /\ ~ExportOverridden(model_operation, map[model_operation.entity.bc_guid])
           /\ return_operations' =
                Append(return_operations, map[model_operation.entity.bc_guid])
    /\ visited' = visited + 1
    /\ ReconcileUnchanged

\* the loop is over: return return_operations
ReconcileReturn ==
    /\ pc = "loop"
    /\ visited = Len(model_operations)
    /\ result' = return_operations
    /\ pc' = "returned"
    /\ UNCHANGED <<error, visited, current_model, updated_model, operations,
                   import_entity, export_entity, update_mask,
                   model_operations, generated_operations, return_operations>>

ReconcileNext ==
    \/ ReconcileNoGenerated
    \/ ReconcileDelete
    \/ ReconcileExport
    \/ ReconcileElse
    \/ ReconcileReturn

ReconcileSpec == ReconcileInit /\ [][ReconcileNext]_vars

(***************************************************************************)
(* Properties of ReconcileOperations, checked under ReconcileSpec.  They   *)
(* are stated on the lists themselves, not through GeneratedOperationMap.  *)
(***************************************************************************)
\* the positions of generated_operations that hold an operation for guid
GeneratedAt(guid) ==
    {i \in 1..Len(generated_operations) :
        generated_operations[i].entity.bc_guid = guid}

\* the operation ReconcileOperations looks up for guid: the last of its guid
GeneratedFor(guid) ==
    generated_operations[CHOOSE i \in GeneratedAt(guid) :
                            \A j \in GeneratedAt(guid) : j <= i]

Returned == pc = "returned"

\* C1: every manual DELETE is in the result, at its own position, whatever
\* the generated list holds for its guid.
C1_DeleteAlwaysWins ==
    /\ \A i \in 1..Len(return_operations) :
            model_operations[i].operation = DELETE
                => return_operations[i] = model_operations[i]
    /\ Returned =>
            \A i \in 1..Len(model_operations) :
                model_operations[i].operation = DELETE
                    => /\ i <= Len(result)
                       /\ result[i] = model_operations[i]

\* a manual DELETE met a generated UPDATE of its guid and was returned
C1_Witness ==
    /\ Returned
    /\ \E i \in 1..Len(model_operations) :
        LET guid == model_operations[i].entity.bc_guid
        IN  /\ model_operations[i].operation = DELETE
            /\ GeneratedAt(guid) # {}
            /\ GeneratedFor(guid).operation = UPDATE
            /\ result[i] = model_operations[i]

\* C2: the result has one operation per manual operation, in the manual
\* order and with the manual operation's guid; a guid that only the
\* generated list holds is not in the result.
C2_ManualDefinesUniverse ==
    /\ Len(return_operations) = visited
    /\ \A i \in 1..Len(return_operations) :
            return_operations[i].entity.bc_guid = model_operations[i].entity.bc_guid
    /\ Returned =>
            /\ Len(result) = Len(model_operations)
            /\ \A i \in 1..Len(result) :
                    result[i].entity.bc_guid = model_operations[i].entity.bc_guid
            /\ \A j \in 1..Len(generated_operations) :
                    LET guid == generated_operations[j].entity.bc_guid
                    IN  (\A i \in 1..Len(model_operations) :
                            model_operations[i].entity.bc_guid # guid)
                        => \A i \in 1..Len(result) : result[i].entity.bc_guid # guid

\* two manual operations were reconciled, one replaced by a generated
\* operation, while the generated list held a guid of its own
C2_Witness ==
    /\ Returned
    /\ Len(model_operations) = 2
    /\ result[1] \in ToSet(generated_operations)
    /\ \E j \in 1..Len(generated_operations) :
            \A i \in 1..Len(model_operations) :
                model_operations[i].entity.bc_guid
                    # generated_operations[j].entity.bc_guid

C4_ExportNeverWins ==
    \A i \in 1..Len(return_operations) :
        LET manual == model_operations[i]
            guid == manual.entity.bc_guid
        IN  GeneratedAt(guid) # {} =>
                LET generated == GeneratedFor(guid)
                IN  /\ (manual.operation = EXPORT /\ generated.operation # EXPORT)
                            => return_operations[i] = generated
                    /\ (manual.operation # EXPORT /\ generated.operation = EXPORT)
                            => return_operations[i] = manual

(***************************************************************************)
(* Properties of DetermineEntityOperations and of the mask calculators it  *)
(* calls, checked under DiffSpec.                                          *)
(***************************************************************************)
\* the distinct elements of a list
Members(xs) == {xs[i] : i \in DOMAIN xs}

\* the positions of `ops` that hold an operation for guid
OperationsAt(ops, guid) == {j \in 1..Len(ops) : ops[j].entity.bc_guid = guid}

\* the guid is one of current_model's
InCurrent(guid) == \E k \in 1..Len(current_model) : current_model[k].bc_guid = guid

\* the guid is one of updated_model's
InUpdated(guid) == \E i \in 1..Len(updated_model) : updated_model[i].bc_guid = guid

\* some guid is a VirtualEntity in one model and a ReportingEntity in the other
VariantConflictOn(guid) ==
    \E i \in 1..Len(updated_model), k \in 1..Len(current_model) :
        /\ updated_model[i].bc_guid = guid
        /\ current_model[k].bc_guid = guid
        /\ updated_model[i].variant # current_model[k].variant

VariantConflict == \E guid \in Guids : VariantConflictOn(guid)

\* the last iteration compared import_entity with export_entity, and
\* update_mask is the mask of that pair
MaskComputed ==
    /\ pc # "raised"
    /\ visited > 0
    /\ import_entity = updated_model[visited]
    /\ export_entity.bc_guid = import_entity.bc_guid

\* C5: an entity of updated_model whose guid current_model lacks gets
\* exactly one operation: ADD, wrapping that entity, without a mask.
C5_NewEntityIsAdded ==
    /\ \A i \in 1..visited :
        LET entity == updated_model[i]
        IN  ~InCurrent(entity.bc_guid) =>
                /\ Cardinality(OperationsAt(operations, entity.bc_guid)) = 1
                /\ \A j \in OperationsAt(operations, entity.bc_guid) :
                        operations[j] = [entity |-> entity, operation |-> ADD,
                                         update_mask |-> <<>>]
    /\ Returned => /\ visited = Len(updated_model)
                   /\ result = operations

\* a call returned an ADD for a new entity next to an UPDATE for a known one
C5_Witness ==
    /\ Returned
    /\ \E i \in 1..Len(updated_model) : ~InCurrent(updated_model[i].bc_guid)
    /\ \E j, k \in 1..Len(result) :
            result[j].operation = ADD /\ result[k].operation = UPDATE

\* C6: with a guid of conflicting variants the call ends in the TypeError
\* that names such a guid and returns nothing, whatever it built before;
\* without one it returns.  The call always ends.
C6_VariantConflictRaises ==
    /\ pc = "raised" => /\ error.type = "TypeError"
                        /\ VariantConflictOn(error.guid)
                        /\ result = <<>>
    /\ Returned => ~VariantConflict /\ error = NoError
    /\ pc = "loop" => ENABLED DiffNext

\* the call raised after it had built an UPDATE for an earlier entity
C6_Witness ==
    /\ pc = "raised"
    /\ error.type = "TypeError"
    /\ Len(operations) = 1
    /\ operations[1].operation = UPDATE
    /\ result = <<>>

\* C7: every operation is an ADD or an UPDATE of an entity of
\* updated_model, every UPDATE has a non-empty mask, and a guid that only
\* current_model holds gets no operation.
C7_OnlyAddOrUpdate ==
    /\ \A j \in 1..Len(operations) :
            /\ operations[j].operation \in {ADD, UPDATE}
            /\ operations[j].entity \in Members(updated_model)
            /\ operations[j].operation = UPDATE
                    => Len(operations[j].update_mask) > 0
    /\ Returned =>
            /\ result = operations
            /\ \A k \in 1..Len(current_model) :
                    ~InUpdated(current_model[k].bc_guid)
                        => OperationsAt(result, current_model[k].bc_guid) = {}

\* a call returned an UPDATE while current_model held an entity that
\* updated_model lacks
C7_Witness ==
    /\ Returned
    /\ \E k \in 1..Len(current_model) : ~InUpdated(current_model[k].bc_guid)
    /\ \E j \in 1..Len(result) : result[j].operation = UPDATE

\* C8: LINKS is flagged exactly when both link lists are non-empty and, as
\* sets, fewer than nine tenths of the current links are among the updated
\* ones; the score never divides by zero.
C8_LinksBelowNineTenths ==
    /\ error.type # "ZeroDivisionError"
    /\ (MaskComputed /\ import_entity.variant = VirtualEntity) =>
        LET current == Members(export_entity.links)
            updated == Members(import_entity.links)
        IN  LINKS \in Members(update_mask)
                <=> /\ current # {}
                    /\ updated # {}
                    /\ 10 * Cardinality(updated \cap current)
                            < 9 * Cardinality(current)

\* nine of ten current links kept and a new one added: a score of exactly
\* 0.9, and LINKS is not flagged
C8_Witness ==
    /\ Returned
    /\ MaskComputed
    /\ import_entity.variant = VirtualEntity
    /\ Cardinality(Members(export_entity.links)) = 10
    /\ Cardinality(Members(import_entity.links) \cap Members(export_entity.links)) = 9
    /\ Members(import_entity.links) \ Members(export_entity.links) # {}
    /\ LINKS \notin Members(update_mask)

\* the updated entity is the current one with some connections removed
OnlyConnectionsRemoved ==
    /\ import_entity = [export_entity EXCEPT !.connections = import_entity.connections]
    /\ Members(import_entity.connections) \subseteq Members(export_entity.connections)
    /\ Members(import_entity.connections) # Members(export_entity.connections)

\* C9: for both variants CONNECTIONS is flagged exactly when the updated
\* entity has a connection the current one lacks; a pair that differs only
\* by removed connections has an empty mask and gets no operation.
C9_ConnectionsAdditionsOnly ==
    MaskComputed =>
        /\ CONNECTIONS \in Members(update_mask)
                <=> \E c \in Members(import_entity.connections) :
                        c \notin Members(export_entity.connections)
        /\ OnlyConnectionsRemoved =>
                /\ update_mask = <<>>
                /\ OperationsAt(operations, import_entity.bc_guid) = {}
                /\ Returned => OperationsAt(result, import_entity.bc_guid) = {}

\* a call returned no operation for an entity that lost a connection
C9_Witness ==
    /\ Returned
    /\ MaskComputed
    /\ OnlyConnectionsRemoved
    /\ result = <<>>

\* C10: TRANSLATION is flagged exactly when the translations common to both
\* entities are not all of the current ones, that is when a current
\* translation is missing from the updated entity.
C10_TranslationLossOnly ==
    (MaskComputed /\ import_entity.variant = ReportingEntity) =>
        LET current == Members(export_entity.translations)
            updated == Members(import_entity.translations)
        IN  /\ TRANSLATION \in Members(update_mask)
                    <=> (updated \cap current) # current
            /\ TRANSLATION \in Members(update_mask)
                    <=> \E t \in current : t \notin updated

\* a translation was added, every current one kept, and TRANSLATION is
\* not flagged
C10_Witness ==
    /\ Returned
    /\ MaskComputed
    /\ import_entity.variant = ReportingEntity
    /\ Members(export_entity.translations) # {}
    /\ Members(export_entity.translations) \subseteq Members(import_entity.translations)
    /\ Members(import_entity.translations) # Members(export_entity.translations)
    /\ TRANSLATION \notin Members(update_mask)

====
